---- MODULE Spec2Model ----
(***************************************************************************)
(* Budget spreadsheet component (src/src/app/app.ts, class App).           *)
(*                                                                         *)
(* State: the range form, the `ranges` signal, the income and expense      *)
(* parent form arrays, the two debounced `...Children` signals, the copy   *)
(* buffer.  Operations: the component's public methods, the user's edits   *)
(* of form controls, the debounce timers and the range subscription.      *)
(*                                                                         *)
(* Encoding of JavaScript values:                                          *)
(*   a 'yyyy-MM' string is the pair <<year, month>>;                       *)
(*   an absent (undefined) month argument is <<>>;                         *)
(*   null / undefined labels are the string "null";                        *)
(*   a form control value is NumberValue(n) or TextValue (a string that    *)
(*   Number() turns into NaN);                                             *)
(*   a value that may be null or undefined is None or Some(x).             *)
(***************************************************************************)
EXTENDS Integers, Sequences, FiniteSets, TLC

VARIABLES
    rangeForm,          \* rangeForm.value: [start, end]
    ranges,             \* the ranges signal's last value
    rangesErr,          \* the ranges signal is in its error state
    copyData,           \* the copyData signal
    incomeParentForm,   \* incomeParentForm.value
    expenseParentForm,  \* expenseParentForm.value
    incomeChildren,     \* the incomeChildren signal
    expenseChildren,    \* the expenseChildren signal
    incomePending,      \* changes held by the running debounceTime(200) timer
                        \* (0: no timer; counted up to MaxBurst)
    expensePending,     \* the same for the expense side
    destroyed           \* ngOnDestroy has run

vars == <<rangeForm, ranges, rangesErr, copyData, incomeParentForm,
          expenseParentForm, incomeChildren, expenseChildren,
          incomePending, expensePending, destroyed>>

-----------------------------------------------------------------------------
(* Bounds of the model *)

MaxParents == 2
MaxChildren == 2
MaxSlots == 3
MaxValue == 1
MaxBurst == 2
BaseYear == 2023
YearSpan == 2

-----------------------------------------------------------------------------
(* JavaScript values *)

Null == "null"
NoMonth == <<>>
\* an optional value (T | null, T | undefined): <<>> when absent, <<x>> when x
None == <<>>
Some(x) == <<x>>

NumberValue(n) == [kind |-> "number", n |-> n]
TextValue == [kind |-> "string", n |-> 0]

Falsy(label) == label = Null \/ label = ""

Sides == {"income", "expense"}

defaultRanges == [start |-> <<2024, 1>>, end |-> <<2024, 12>>]

(* What the user can type or pick *)
MonthInputs == {<<2023, 12>>, <<2024, 1>>, <<2024, 2>>}
RangeInputs == {NoMonth, <<2024, 1>>}
ParentLabelInputs == {Null, "Incomes"}
ValueInputs == {NumberValue(n) : n \in 0..MaxValue} \cup {TextValue}
NumberInputs == {NumberValue(n) : n \in 0..MaxValue}
ChildLabelInputs == {"a"}

-----------------------------------------------------------------------------
(* luxon *)

\* DateTime.fromFormat(text, 'yyyy-MM'), as a count of months
fromFormat(text) == text[1] * 12 + (text[2] - 1)

\* dateTime.toFormat('yyyy-MM')
toFormat(n) == <<n \div 12, (n % 12) + 1>>

\* the loop of getRangeValues with `i < diff` for `i <= diff`
getRangeValuesExclusive(start, end) ==
    LET startValue == start[1] * 12 + (start[2] - 1)
        diff == (end[1] * 12 + (end[2] - 1)) - startValue
    IN  IF diff <= 0 THEN <<>>
        ELSE [i \in 1..diff |-> <<(startValue + (i - 1)) \div 12, ((startValue + (i - 1)) % 12) + 1>>]

\* getRangeValues({start, end})
getRangeValues(start, end) ==
    LET startValue == fromFormat(start)
        endValue == fromFormat(end)
        diff == endValue - startValue
    IN  IF diff < 0 THEN <<>>
        ELSE [i \in 1..(diff + 1) |-> toFormat(startValue + (i - 1))]

-----------------------------------------------------------------------------
(* Array helpers *)

Includes(seq, x) == \E i \in 1..Len(seq) : seq[i] = x

\* array.findIndex / controls.find: the first index that matches, 0 if none
FindIndexTime(values, time) ==
    IF \E i \in 1..Len(values) : values[i].time = time
    THEN CHOOSE i \in 1..Len(values) :
            /\ values[i].time = time
            /\ \A j \in 1..(i - 1) : values[j].time # time
    ELSE 0

FindParent(parents, label) ==
    IF \E i \in 1..Len(parents) : parents[i].label = label
    THEN CHOOSE i \in 1..Len(parents) :
            /\ parents[i].label = label
            /\ \A j \in 1..(i - 1) : parents[j].label # label
    ELSE 0

RemoveAt(seq, i) == SubSeq(seq, 1, i - 1) \o SubSeq(seq, i + 1, Len(seq))

InsertAt(seq, i, x) == SubSeq(seq, 1, i - 1) \o <<x>> \o SubSeq(seq, i, Len(seq))

Times(values) == [i \in 1..Len(values) |-> values[i].time]

FormOf(side) == IF side = "income" THEN incomeParentForm ELSE expenseParentForm

-----------------------------------------------------------------------------
(* updateChildrenForNewRanges: one child's values array.  The result is    *)
(* [thrown, values]: DateTime.fromFormat(undefined, ...) throws luxon's    *)
(* InvalidArgumentError, which happens when existingTimes[0] is read from  *)
(* an empty array.                                                         *)

NewSlot(range) == [value |-> NumberValue(0), time |-> range]

\* lines 316-328, the "Add new ranges" loop of the income branch
RECURSIVE AddRangesIncome(_, _, _, _)
AddRangesIncome(values, existingTimes, rs, i) ==
    IF i > Len(rs) THEN [thrown |-> FALSE, values |-> values]
    ELSE IF ~Includes(existingTimes, rs[i])
    THEN IF existingTimes = <<>>
         THEN [thrown |-> TRUE, values |-> values]
         ELSE IF fromFormat(rs[i]) < fromFormat(existingTimes[1])
              THEN AddRangesIncome(InsertAt(values, 1, NewSlot(rs[i])), existingTimes, rs, i + 1)
              ELSE AddRangesIncome(Append(values, NewSlot(rs[i])), existingTimes, rs, i + 1)
    ELSE AddRangesIncome(values, existingTimes, rs, i + 1)

\* lines 348-357, the "Add new ranges" loop of the expense branch
RECURSIVE AddRangesExpense(_, _, _, _)
AddRangesExpense(values, existingTimes, rs, i) ==
    IF i > Len(rs) THEN [thrown |-> FALSE, values |-> values]
    ELSE IF existingTimes = <<>>
    THEN [thrown |-> TRUE, values |-> values]
    ELSE IF fromFormat(rs[i]) < fromFormat(existingTimes[1])
         THEN AddRangesExpense(InsertAt(values, 1, NewSlot(rs[i])), existingTimes, rs, i + 1)
         ELSE AddRangesExpense(Append(values, NewSlot(rs[i])), existingTimes, rs, i + 1)

\* lines 330-337 and 359-366, the removal loop
RECURSIVE RemoveStale(_, _, _, _)
RemoveStale(values, existingTimes, rs, i) ==
    IF i > Len(existingTimes) THEN values
    ELSE IF ~Includes(rs, existingTimes[i])
    THEN LET index == FindIndexTime(values, existingTimes[i])
         IN  IF index # 0
             THEN RemoveStale(RemoveAt(values, index), existingTimes, rs, i + 1)
             ELSE RemoveStale(values, existingTimes, rs, i + 1)
    ELSE RemoveStale(values, existingTimes, rs, i + 1)

UpdateValuesIncome(values, rs) ==
    LET existingTimes == Times(values)
        added == AddRangesIncome(values, existingTimes, rs, 1)
    IN  IF added.thrown THEN added
        ELSE [thrown |-> FALSE, values |-> RemoveStale(added.values, existingTimes, rs, 1)]

UpdateValuesExpense(values, rs) ==
    LET existingTimes == Times(values)
        added == AddRangesExpense(values, existingTimes, rs, 1)
    IN  IF added.thrown THEN added
        ELSE [thrown |-> FALSE, values |-> RemoveStale(added.values, existingTimes, rs, 1)]

UpdateValues(side, values, rs) ==
    IF side = "income" THEN UpdateValuesIncome(values, rs)
    ELSE UpdateValuesExpense(values, rs)

\* the loop over one parent's children; stops at the first child that throws
RECURSIVE UpdateChildren(_, _, _, _)
UpdateChildren(side, children, rs, i) ==
    IF i > Len(children) THEN [thrown |-> FALSE, children |-> children]
    ELSE LET r == UpdateValues(side, children[i].values, rs)
         IN  IF r.thrown THEN [thrown |-> TRUE, children |-> children]
             ELSE UpdateChildren(side, [children EXCEPT ![i].values = r.values], rs, i + 1)

\* the loop over one side's parents
RECURSIVE UpdateParents(_, _, _, _)
UpdateParents(side, parents, rs, i) ==
    IF i > Len(parents) THEN [thrown |-> FALSE, parents |-> parents]
    ELSE LET r == UpdateChildren(side, parents[i].children, rs, 1)
             next == [parents EXCEPT ![i].children = r.children]
         IN  IF r.thrown THEN [thrown |-> TRUE, parents |-> next]
             ELSE UpdateParents(side, next, rs, i + 1)

\* updateChildrenForNewRanges(ranges): income first, then expense
updateChildrenForNewRanges(income, expense, rs) ==
    LET inc == UpdateParents("income", income, rs, 1)
        exp == UpdateParents("expense", expense, rs, 1)
    IN  IF inc.thrown
        THEN [thrown |-> TRUE, income |-> inc.parents, expense |-> expense]
        ELSE [thrown |-> exp.thrown, income |-> inc.parents, expense |-> exp.parents]

-----------------------------------------------------------------------------
(* The flattener: the map(...) of the incomeChildren / expenseChildren pipes *)

FlattenValues(parentLabel, child) ==
    [k \in 1..Len(child.values) |->
        [label |-> child.label, value |-> child.values[k].value,
         parent |-> parentLabel, time |-> child.values[k].time]]

RECURSIVE FlattenChildren(_, _, _)
FlattenChildren(parentLabel, children, i) ==
    IF i > Len(children) THEN <<>>
    ELSE FlattenValues(parentLabel, children[i]) \o FlattenChildren(parentLabel, children, i + 1)

RECURSIVE FlattenFrom(_, _)
FlattenFrom(parents, i) ==
    IF i > Len(parents) THEN <<>>
    ELSE FlattenChildren(parents[i].label, parents[i].children, 1) \o FlattenFrom(parents, i + 1)

Flatten(parents) == FlattenFrom(parents, 1)

-----------------------------------------------------------------------------
(* The aggregator: the computed signals.  A JavaScript number inside a     *)
(* reduce is [nan, n]; `x || 0` turns NaN and 0 into 0.                    *)

ToNumber(v) == IF v.kind = "number" THEN [nan |-> FALSE, n |-> v.n] ELSE [nan |-> TRUE, n |-> 0]

Plus(a, b) == IF a.nan \/ b.nan THEN [nan |-> TRUE, n |-> 0] ELSE [nan |-> FALSE, n |-> a.n + b.n]

OrZero(a) == IF a.nan THEN 0 ELSE a.n

\* children.reduce((a, b) => a + Number(b.value), 0) over the filtered records
RECURSIVE ReduceValues(_, _, _, _, _)
ReduceValues(records, parent, range, i, acc) ==
    IF i > Len(records) THEN acc
    ELSE IF records[i].parent = parent /\ records[i].time = range
    THEN ReduceValues(records, parent, range, i + 1, Plus(acc, ToNumber(records[i].value)))
    ELSE ReduceValues(records, parent, range, i + 1, acc)

\* subTotalIncome / subTotalExpense
subTotal(childrenSignal, parents, rs) ==
    IF childrenSignal = None THEN <<>>
    ELSE LET n == Len(parents)
         IN  [k \in 1..(Len(rs) * n) |->
                LET range == rs[((k - 1) \div n) + 1]
                    parent == parents[((k - 1) % n) + 1].label
                IN  [parent |-> parent, range |-> range,
                     total |-> OrZero(ReduceValues(childrenSignal[1], parent, range, 1,
                                                   [nan |-> FALSE, n |-> 0]))]]

RECURSIVE ReduceTotals(_, _, _, _)
ReduceTotals(subTotals, range, i, acc) ==
    IF i > Len(subTotals) THEN acc
    ELSE IF subTotals[i].range = range
    THEN ReduceTotals(subTotals, range, i + 1, acc + subTotals[i].total)
    ELSE ReduceTotals(subTotals, range, i + 1, acc)

RangeSet(rs) == {rs[i] : i \in 1..Len(rs)}

\* totalIncomeValue / totalExpenseValue: a Map from month to number
totalValue(subTotals, rs) == [range \in RangeSet(rs) |-> ReduceTotals(subTotals, range, 1, 0)]

subTotalIncome == subTotal(incomeChildren, incomeParentForm, ranges)
subTotalExpense == subTotal(expenseChildren, expenseParentForm, ranges)
totalIncomeValue == totalValue(subTotalIncome, ranges)
totalExpenseValue == totalValue(subTotalExpense, ranges)

\* profitLossValue
profitLoss(income, expense, rs) == [range \in RangeSet(rs) |-> income[range] - expense[range]]

profitLossValue == profitLoss(totalIncomeValue, totalExpenseValue, ranges)

\* the loop of openCloseBalance opening every month at 0
BalanceLoopNotCarried(rs, pl, index, data) ==
    [r \in {rs[i] : i \in 1..Len(rs)} |-> [opening |-> 0, closing |-> pl[r]]]

\* openCloseBalance: the loop over ranges().entries(), data being the Map so far
RECURSIVE BalanceLoop(_, _, _, _)
BalanceLoop(rs, pl, index, data) ==
    IF index > Len(rs) THEN data
    ELSE LET opening == IF index = 1 THEN 0 ELSE data[rs[index - 1]].closing
             entry == [opening |-> opening, closing |-> opening + pl[rs[index]]]
         IN  BalanceLoop(rs, pl, index + 1,
                         [r \in DOMAIN data \cup {rs[index]} |->
                            IF r = rs[index] THEN entry ELSE data[r]])

openCloseBalance == BalanceLoop(ranges, profitLossValue, 1, [r \in {} |-> 0])

-----------------------------------------------------------------------------
(* Initial state: the constructor *)

NewParent(label) == [label |-> label, children |-> <<>>]

Init ==
    /\ rangeForm = defaultRanges
    /\ ranges = getRangeValues(defaultRanges.start, defaultRanges.end)
    /\ rangesErr = FALSE
    /\ copyData = None
    /\ incomeParentForm = <<NewParent("Incomes")>>
    /\ expenseParentForm = <<NewParent("Expenses")>>
    /\ incomeChildren = None
    /\ expenseChildren = None
    /\ incomePending = 1
    /\ expensePending = 1
    /\ destroyed = FALSE

-----------------------------------------------------------------------------
(* Sizes *)

RECURSIVE CountChildren(_, _)
CountChildren(parents, i) ==
    IF i > Len(parents) THEN 0
    ELSE Len(parents[i].children) + CountChildren(parents, i + 1)

SlotsWithin(parents, n) ==
    \A p \in 1..Len(parents) : \A c \in 1..Len(parents[p].children) :
        Len(parents[p].children[c].values) <= n

Labels(parents) == [i \in 1..Len(parents) |-> parents[i].label]

LabelSet(parents) == {parents[i].label : i \in 1..Len(parents)}

\* a hierarchy change that does not reach the debounce
NotHeld(pending) == 0

\* a hierarchy change is emitted by valueChanges and (re)starts the debounce timer
Held(pending) == IF pending < MaxBurst THEN pending + 1 ELSE pending

SetForms(income, expense) ==
    /\ incomeParentForm' = income
    /\ expenseParentForm' = expense
    /\ incomePending' = IF income # incomeParentForm THEN Held(incomePending) ELSE incomePending
    /\ expensePending' = IF expense # expenseParentForm THEN Held(expensePending) ELSE expensePending

SetForm(side, parents) ==
    IF side = "income"
    THEN /\ incomeParentForm' = parents
         /\ incomePending' = Held(incomePending)
         /\ UNCHANGED <<expenseParentForm, expensePending>>
    ELSE /\ expenseParentForm' = parents
         /\ expensePending' = Held(expensePending)
         /\ UNCHANGED <<incomeParentForm, incomePending>>

-----------------------------------------------------------------------------
(* The range subscription: rangeForm.valueChanges -> map(...) -> ranges *)

RangeChanged(value) ==
    /\ ~destroyed
    /\ rangeForm' = value
    /\ UNCHANGED <<copyData, incomeChildren, expenseChildren, destroyed>>
    /\ IF rangesErr
       THEN \* the subscription ended with the error: nothing listens any more
            UNCHANGED <<ranges, rangesErr, incomeParentForm, expenseParentForm,
                        incomePending, expensePending>>
       ELSE LET rs == getRangeValues(value.start, value.end)
                r == updateChildrenForNewRanges(incomeParentForm, expenseParentForm, rs)
            IN  /\ SetForms(r.income, r.expense)
                /\ rangesErr' = r.thrown
                /\ ranges' = IF r.thrown THEN ranges ELSE rs

SetRangeStart(m) ==
    /\ m # rangeForm.start
    /\ RangeChanged([rangeForm EXCEPT !.start = m])

SetRangeEnd(m) ==
    /\ m # rangeForm.end
    /\ RangeChanged([rangeForm EXCEPT !.end = m])

-----------------------------------------------------------------------------
(* Hierarchy operations *)

Others == <<rangeForm, ranges, rangesErr, incomeChildren, expenseChildren, destroyed>>

\* addIncomeParent(parent?) / addExpenseParent(parent?)
AddParent(side, label) ==
    /\ ~destroyed
    /\ SetForm(side, Append(FormOf(side), NewParent(label)))
    /\ UNCHANGED <<copyData, Others>>

addIncomeParent(label) == AddParent("income", label)

addExpenseParent(label) == AddParent("expense", label)

\* the group built for a new child: label '' and one slot of value 0 per range
NewChild(rs) == [label |-> "", values |-> [i \in 1..Len(rs) |-> NewSlot(rs[i])]]

\* the loop `for (const parentLabel of parents)` of addIncomeChild / addExpenseChild
RECURSIVE PushChildren(_, _, _, _)
PushChildren(parents, labels, i, child) ==
    IF i > Len(labels) THEN parents
    ELSE LET at == FindParent(parents, labels[i])
         IN  IF at # 0
             THEN PushChildren([parents EXCEPT ![at].children = Append(@, child)],
                               labels, i + 1, child)
             ELSE PushChildren(parents, labels, i + 1, child)

\* addIncomeChild(parent?, range?)
addIncomeChild(parent, range) ==
    /\ ~destroyed
    /\ range = NoMonth => ~rangesErr     \* this.ranges() rethrows the error
    /\ LET rs == IF range # NoMonth THEN <<range>> ELSE ranges
           labels == IF ~Falsy(parent) THEN <<parent>> ELSE Labels(incomeParentForm)
           next == PushChildren(incomeParentForm, labels, 1, NewChild(rs))
       IN  SetForms(next, expenseParentForm)
    /\ UNCHANGED <<copyData, Others>>

\* addExpenseChild(parent?, range?)
addExpenseChild(parent, range) ==
    /\ ~destroyed
    /\ range = NoMonth => ~rangesErr
    /\ LET rs == IF range # NoMonth THEN <<range>> ELSE ranges
           labels == IF ~Falsy(parent) THEN <<parent>> ELSE Labels(incomeParentForm)
           next == PushChildren(expenseParentForm, labels, 1, NewChild(rs))
       IN  SetForms(incomeParentForm, next)
    /\ UNCHANGED <<copyData, Others>>

\* removeIncomeParent(index) / removeExpenseParent(index)
removeParent(side, index) ==
    /\ ~destroyed
    /\ index \in 1..Len(FormOf(side))
    /\ SetForm(side, RemoveAt(FormOf(side), index))
    /\ UNCHANGED <<copyData, Others>>

\* removeIncomeChild(parent, index) / removeExpenseChild(parent, index)
removeChild(side, parent, index) ==
    /\ ~destroyed
    /\ LET at == FindParent(FormOf(side), parent)
       IN  /\ at # 0
           /\ index \in 1..Len(FormOf(side)[at].children)
           /\ SetForm(side, [FormOf(side) EXCEPT ![at].children = RemoveAt(@, index)])
    /\ UNCHANGED <<copyData, Others>>

\* copyChild(parent, index, type)
copyChild(parent, index, type) ==
    /\ ~destroyed
    /\ LET at == FindParent(FormOf(type), parent)
       IN  /\ at # 0
           /\ index \in 1..Len(FormOf(type)[at].children)
           /\ copyData' = Some(FormOf(type)[at].children[index])
    /\ UNCHANGED <<incomeParentForm, expenseParentForm, incomePending, expensePending, Others>>

\* pasteChild building the group with fresh value controls of value 0
PastedChildZeroed(dataToPaste) ==
    [label |-> dataToPaste.label,
     values |-> [i \in 1..Len(dataToPaste.values) |->
                    [time |-> dataToPaste.values[i].time, value |-> [kind |-> "number", n |-> 0]]]]

\* the group pasteChild builds from the snapshot
PastedChild(dataToPaste) ==
    [label |-> dataToPaste.label,
     values |-> [i \in 1..Len(dataToPaste.values) |->
                    [time |-> dataToPaste.values[i].time,
                     value |-> dataToPaste.values[i].value]]]

\* pasteChild(parent, index, type)
pasteChild(parent, index, type) ==
    /\ ~destroyed
    /\ copyData # None
    /\ LET at == FindParent(FormOf(type), parent)
       IN  /\ at # 0
           /\ index \in 1..Len(FormOf(type)[at].children)
           /\ SetForm(type, [FormOf(type) EXCEPT ![at].children =
                    InsertAt(RemoveAt(@, index), index, PastedChild(copyData[1]))])
    /\ UNCHANGED <<copyData, Others>>

\* the user types into a value control
EditValue(side, p, c, k, v) ==
    /\ ~destroyed
    /\ p \in 1..Len(FormOf(side))
    /\ c \in 1..Len(FormOf(side)[p].children)
    /\ k \in 1..Len(FormOf(side)[p].children[c].values)
    /\ v # FormOf(side)[p].children[c].values[k].value
    /\ SetForm(side, [FormOf(side) EXCEPT ![p].children[c].values[k].value = v])
    /\ UNCHANGED <<copyData, Others>>

\* the user types into a child's label control
EditChildLabel(side, p, c, label) ==
    /\ ~destroyed
    /\ p \in 1..Len(FormOf(side))
    /\ c \in 1..Len(FormOf(side)[p].children)
    /\ label # FormOf(side)[p].children[c].label
    /\ SetForm(side, [FormOf(side) EXCEPT ![p].children[c].label = label])
    /\ UNCHANGED <<copyData, Others>>

-----------------------------------------------------------------------------
(* debounceTime(200): the timer of one side expires, 200 ms after the last  *)
(* hierarchy change of that side, and the flattened list is recomputed      *)

DebounceFire(side) ==
    /\ ~destroyed
    /\ IF side = "income"
       THEN /\ incomePending > 0
            /\ incomeChildren' = Some(Flatten(incomeParentForm))
            /\ incomePending' = 0
            /\ UNCHANGED <<expenseChildren, expensePending>>
       ELSE /\ expensePending > 0
            /\ expenseChildren' = Some(Flatten(expenseParentForm))
            /\ expensePending' = 0
            /\ UNCHANGED <<incomeChildren, incomePending>>
    /\ UNCHANGED <<rangeForm, ranges, rangesErr, copyData, incomeParentForm,
                   expenseParentForm, destroyed>>

\* ngOnDestroy: takeUntil completes the pipes; debounceTime emits what is
\* pending when its source completes
ngOnDestroy ==
    /\ ~destroyed
    /\ destroyed' = TRUE
    /\ incomeChildren' = IF incomePending > 0 THEN Some(Flatten(incomeParentForm)) ELSE incomeChildren
    /\ expenseChildren' = IF expensePending > 0 THEN Some(Flatten(expenseParentForm)) ELSE expenseChildren
    /\ incomePending' = 0
    /\ expensePending' = 0
    /\ UNCHANGED <<rangeForm, ranges, rangesErr, copyData, incomeParentForm, expenseParentForm>>

-----------------------------------------------------------------------------

(* Specifications.  Each one is the component under a class of user         *)
(* behaviour.  The operations above carry no bound; a specification keeps   *)
(* the hierarchy small by admitting only the steps that end in a Bounded    *)
(* state.                                                                   *)

Bounded ==
    /\ Len(incomeParentForm) <= MaxParents
    /\ Len(expenseParentForm) <= MaxParents
    /\ CountChildren(incomeParentForm, 1) + CountChildren(expenseParentForm, 1) <= MaxChildren
    /\ SlotsWithin(incomeParentForm, MaxSlots)
    /\ SlotsWithin(expenseParentForm, MaxSlots)

HasChildren == CountChildren(incomeParentForm, 1) + CountChildren(expenseParentForm, 1) > 0

\* the user edits less than MaxBurst times within one debounce window
Burst == incomePending < MaxBurst /\ expensePending < MaxBurst

\* Range changes over a hierarchy of children with edited values.
Next ==
    \/ \E m \in MonthInputs : SetRangeStart(m) /\ Bounded'
    \/ \E m \in MonthInputs : SetRangeEnd(m) /\ Bounded'
    \/ \E parent \in LabelSet(incomeParentForm) \cup {Null} :
            \E range \in RangeInputs : addIncomeChild(parent, range) /\ Bounded'
    \/ \E parent \in LabelSet(expenseParentForm) \cup {Null} :
            \E range \in RangeInputs : addExpenseChild(parent, range) /\ Bounded'
    \/ \E side \in Sides : \E parent \in LabelSet(FormOf(side)) :
            \E index \in 1..MaxChildren : removeChild(side, parent, index)
    \/ \E side \in Sides : \E p \in 1..MaxParents : \E c \in 1..MaxChildren :
            \E k \in 1..MaxSlots : \E v \in ValueInputs : EditValue(side, p, c, k, v)

Spec == Init /\ [][Next]_vars

\* Building and editing the hierarchy, copy and paste; the range is only
\* changed (its end) while there are no children, the values typed are numbers.
NextCopyPaste ==
    \/ ~HasChildren /\ \E m \in MonthInputs : SetRangeEnd(m)
    \/ \E label \in ParentLabelInputs : addExpenseParent(label) /\ Bounded'
    \/ \E side \in Sides : \E index \in 1..MaxParents : removeParent(side, index)
    \/ \E parent \in LabelSet(incomeParentForm) \cup {Null} :
            addIncomeChild(parent, NoMonth) /\ Bounded'
    \/ \E parent \in LabelSet(expenseParentForm) \cup {Null} :
            addExpenseChild(parent, NoMonth) /\ Bounded'
    \/ \E side \in Sides : \E parent \in LabelSet(FormOf(side)) :
            \E index \in 1..MaxChildren : removeChild(side, parent, index)
    \/ \E side \in Sides : \E p \in 1..MaxParents : \E c \in 1..MaxChildren :
            \E k \in 1..MaxSlots : \E v \in NumberInputs : EditValue(side, p, c, k, v)
    \/ \E side \in Sides : \E p \in 1..MaxParents : \E c \in 1..MaxChildren :
            \E label \in ChildLabelInputs : EditChildLabel(side, p, c, label)
    \/ \E type \in Sides : \E parent \in LabelSet(FormOf(type)) :
            \E index \in 1..MaxChildren : copyChild(parent, index, type)
    \/ \E type \in Sides : \E parent \in LabelSet(FormOf(type)) :
            \E index \in 1..MaxChildren : pasteChild(parent, index, type)

SpecCopyPaste == Init /\ [][NextCopyPaste]_vars

\* no debounce timer is running
Quiet == incomePending = 0 /\ expensePending = 0

\* Edits in bursts of less than MaxBurst per debounce window, the debounce
\* timers and the component's destruction; the range keeps its start, the values
\* typed are numbers.
NextDebounce ==
    \/ Burst /\ \E m \in MonthInputs : SetRangeEnd(m) /\ Bounded'
    \/ Burst /\ \E parent \in LabelSet(incomeParentForm) \cup {Null} :
            addIncomeChild(parent, NoMonth) /\ Bounded'
    \/ Burst /\ \E parent \in LabelSet(expenseParentForm) \cup {Null} :
            addExpenseChild(parent, NoMonth) /\ Bounded'
    \/ Burst /\ \E side \in Sides : \E parent \in LabelSet(FormOf(side)) :
            \E index \in 1..MaxChildren : removeChild(side, parent, index)
    \/ Burst /\ \E side \in Sides : \E p \in 1..MaxParents : \E c \in 1..MaxChildren :
            \E k \in 1..MaxSlots : \E v \in NumberInputs : EditValue(side, p, c, k, v)
    \/ \E side \in Sides : DebounceFire(side)
    \/ ngOnDestroy

SpecDebounce == Init /\ [][NextDebounce]_vars

\* Edits more than a debounce window apart, and the aggregates read after them;
\* the range keeps its start.
NextAggregate ==
    \/ Quiet /\ \E m \in MonthInputs : SetRangeEnd(m) /\ Bounded'
    \/ Quiet /\ \E label \in ParentLabelInputs : addIncomeParent(label) /\ Bounded'
    \/ Quiet /\ \E parent \in LabelSet(incomeParentForm) \cup {Null} :
            addIncomeChild(parent, NoMonth) /\ Bounded'
    \/ Quiet /\ \E parent \in LabelSet(expenseParentForm) \cup {Null} :
            addExpenseChild(parent, NoMonth) /\ Bounded'
    \/ Quiet /\ \E side \in Sides : \E p \in 1..MaxParents : \E c \in 1..MaxChildren :
            \E k \in 1..MaxSlots : \E v \in ValueInputs : EditValue(side, p, c, k, v)
    \/ \E side \in Sides : DebounceFire(side)

SpecAggregate == Init /\ [][NextAggregate]_vars

\* Range changes alone, over every month of the years BaseYear .. BaseYear + YearSpan.
AllMonths == {<<y, m>> : y \in BaseYear..(BaseYear + YearSpan), m \in 1..12}

NextRange ==
    \/ \E m \in AllMonths : SetRangeStart(m)
    \/ \E m \in AllMonths : SetRangeEnd(m)

SpecRange == Init /\ [][NextRange]_vars

-----------------------------------------------------------------------------
(* Vocabulary of the properties *)

FormOfNext(side) == IF side = "income" THEN incomeParentForm' ELSE expenseParentForm'

MonthIndex(month) == month[1] * 12 + month[2]

\* the calendar month after `month`
MonthAfter(month) == IF month[2] = 12 THEN <<month[1] + 1, 1>> ELSE <<month[1], month[2] + 1>>

monthsBetween(start, end) == (end[1] - start[1]) * 12 + (end[2] - start[2])

MonthSet(values) == {values[k].time : k \in 1..Len(values)}

StrictlyIncreasing(values) ==
    \A k \in 1..(Len(values) - 1) : MonthIndex(values[k].time) < MonthIndex(values[k + 1].time)

Contiguous(values) ==
    \A k \in 1..(Len(values) - 1) : values[k + 1].time = MonthAfter(values[k].time)

AllChildren(parents) ==
    UNION {{parents[p].children[c] : c \in 1..Len(parents[p].children)} : p \in 1..Len(parents)}

\* a step in which the range subscription ran updateChildrenForNewRanges to its end
Reconciled == rangeForm' # rangeForm /\ ~rangesErr /\ ~rangesErr'

-----------------------------------------------------------------------------
(* Properties of Spec *)

\* C1: after updateChildrenForNewRanges with a non-empty range R, every child of
\* either side whose slot list was non-empty holds exactly the months of R; a slot
\* of a month that was not present has value 0, a slot of a month that was present
\* has the value that month had.
ReconcileContract ==
    [][(Reconciled /\ ranges' # <<>>) =>
        \A side \in Sides : \A p \in 1..Len(FormOf(side)) :
            \A c \in 1..Len(FormOf(side)[p].children) :
                LET old == FormOf(side)[p].children[c].values
                    new == FormOfNext(side)[p].children[c].values
                IN  old # <<>> =>
                      /\ MonthSet(new) = RangeSet(ranges')
                      /\ \A k \in 1..Len(new) :
                            IF new[k].time \in MonthSet(old)
                            THEN \E j \in 1..Len(old) : old[j] = new[k]
                            ELSE new[k].value = NumberValue(0)]_vars

\* C2: no child of either side holds two value slots of the same month.
SlotMonthsUnique ==
    \A side \in Sides : \A child \in AllChildren(FormOf(side)) :
        \A j, k \in 1..Len(child.values) :
            child.values[j].time = child.values[k].time => j = k

\* C3: (income branch) a slot list that is in strictly increasing, contiguous month
\* order is in strictly increasing month order again after updateChildrenForNewRanges
\* with a valid new range.
ChronologicalOrderKept ==
    [][(Reconciled /\ ranges' # <<>>) =>
        \A p \in 1..Len(incomeParentForm) :
            \A c \in 1..Len(incomeParentForm[p].children) :
                LET old == incomeParentForm[p].children[c].values
                    new == incomeParentForm'[p].children[c].values
                IN  (old # <<>> /\ StrictlyIncreasing(old) /\ Contiguous(old))
                        => StrictlyIncreasing(new)]_vars

\* C4: no range change raises an error, and a range whose end precedes its start
\* is the empty range.
NoRangeChangeError ==
    /\ ~rangesErr
    /\ monthsBetween(rangeForm.start, rangeForm.end) < 0 => ranges = <<>>

-----------------------------------------------------------------------------
(* Properties of SpecCopyPaste *)

-----------------------------------------------------------------------------
(* Properties of SpecDebounce *)

ChildrenOf(side) == IF side = "income" THEN incomeChildren ELSE expenseChildren
ChildrenOfNext(side) == IF side = "income" THEN incomeChildren' ELSE expenseChildren'
PendingOf(side) == IF side = "income" THEN incomePending ELSE expensePending
PendingOfNext(side) == IF side = "income" THEN incomePending' ELSE expensePending'

\* C9: a hierarchy change of one side recomputes nothing and leaves that side's
\* timer running; the flattened list is only recomputed by the step that ends a
\* running timer, and then it is the flattening of the hierarchy as it is; when no
\* timer is running the flattened list is the flattening of the hierarchy; a range
\* change leaves every child with the months of the new range in that same step.
DebounceCoalesces ==
    [][/\ \A side \in Sides :
            /\ FormOfNext(side) # FormOf(side) =>
                    /\ ChildrenOfNext(side) = ChildrenOf(side)
                    /\ PendingOfNext(side) > 0
            /\ ChildrenOfNext(side) # ChildrenOf(side) =>
                    /\ PendingOf(side) > 0
                    /\ PendingOfNext(side) = 0
                    /\ FormOfNext(side) = FormOf(side)
            /\ PendingOfNext(side) = 0 =>
                    ChildrenOfNext(side) = Some(Flatten(FormOfNext(side)))
       /\ Reconciled =>
            /\ ranges' = getRangeValues(rangeForm'.start, rangeForm'.end)
            /\ \A side \in Sides : \A child \in AllChildren(FormOfNext(side)) :
                    MonthSet(child.values) = RangeSet(ranges')
      ]_vars

\* two changes of the income hierarchy are held by one running timer, and the
\* flattened list, recomputed before them, lags behind
BurstHeld ==
    /\ incomePending = 2
    /\ incomeChildren # None
    /\ incomeChildren # Some(Flatten(incomeParentForm))
    /\ Flatten(incomeParentForm) # <<>>

-----------------------------------------------------------------------------
(* Properties of SpecAggregate *)

\* a value as the specification counts it: a malformed value counts as 0
Coerced(v) == IF v.kind = "number" THEN v.n ELSE 0

RECURSIVE SumCoerced(_, _, _, _)
SumCoerced(records, parent, range, i) ==
    IF i > Len(records) THEN 0
    ELSE (IF records[i].parent = parent /\ records[i].time = range
          THEN Coerced(records[i].value) ELSE 0)
         + SumCoerced(records, parent, range, i + 1)

SubTotalOf(side) == IF side = "income" THEN subTotalIncome ELSE subTotalExpense
TotalOf(side) == IF side = "income" THEN totalIncomeValue ELSE totalExpenseValue

\* C6: every subtotal is the sum, over the flattened records of its parent and
\* month, of the values, a malformed value counting as 0 and every other value in
\* full.
SubTotalCoerces ==
    ~rangesErr =>
        \A side \in Sides : ChildrenOf(side) # None =>
            \A k \in 1..Len(SubTotalOf(side)) :
                LET entry == SubTotalOf(side)[k]
                IN  entry.total = SumCoerced(ChildrenOf(side)[1], entry.parent, entry.range, 1)

RECURSIVE SumProfitLoss(_, _, _)
SumProfitLoss(rs, pl, k) == IF k = 0 THEN 0 ELSE pl[rs[k]] + SumProfitLoss(rs, pl, k - 1)

\* C7: the first month opens at 0, every month closes at its opening plus its
\* profit/loss (the month's income total minus its expense total), every later
\* month opens at the closing of the month before; so the k-th month closes at the
\* sum of the profit/loss of the first k months.
BalanceIsFold ==
    ~rangesErr =>
        \A k \in 1..Len(ranges) :
            LET month == ranges[k]
                entry == openCloseBalance[month]
            IN  /\ profitLossValue[month] = totalIncomeValue[month] - totalExpenseValue[month]
                /\ entry.opening = IF k = 1 THEN 0 ELSE openCloseBalance[ranges[k - 1]].closing
                /\ entry.closing = entry.opening + profitLossValue[month]
                /\ entry.closing = SumProfitLoss(ranges, profitLossValue, k)

\* a profit in the first month carried into the opening of the second, which has a loss
BalanceCarried ==
    /\ ~rangesErr
    /\ Len(ranges) = 2
    /\ profitLossValue[ranges[1]] > 0
    /\ profitLossValue[ranges[2]] < 0
    /\ openCloseBalance[ranges[2]].opening > 0

AllNumbers(parents) ==
    \A child \in AllChildren(parents) : \A k \in 1..Len(child.values) :
        child.values[k].value.kind = "number"

RECURSIVE SumSlots(_, _, _)
SumSlots(values, month, k) ==
    IF k > Len(values) THEN 0
    ELSE (IF values[k].time = month THEN values[k].value.n ELSE 0) + SumSlots(values, month, k + 1)

RECURSIVE SumChildren(_, _, _)
SumChildren(children, month, c) ==
    IF c > Len(children) THEN 0
    ELSE SumSlots(children[c].values, month, 1) + SumChildren(children, month, c + 1)

RECURSIVE SumHierarchy(_, _, _)
SumHierarchy(parents, month, p) ==
    IF p > Len(parents) THEN 0
    ELSE SumChildren(parents[p].children, month, 1) + SumHierarchy(parents, month, p + 1)

\* C10: with no timer running and every value a number, the month total of a side
\* is the sum of the values of all the slots of that month in that side's hierarchy.
MonthTotalCountsOnce ==
    (~rangesErr /\ Quiet) =>
        \A side \in Sides : AllNumbers(FormOf(side)) =>
            \A k \in 1..Len(ranges) :
                TotalOf(side)[ranges[k]] = SumHierarchy(FormOf(side), ranges[k], 1)

-----------------------------------------------------------------------------
(* Properties of SpecRange *)

\* C8: for start <= end the range begins with start, ends with end, has
\* monthsBetween(start, end) + 1 elements, each the calendar month after its
\* predecessor; for end before start it is empty.
MonthRangeGenerated ==
    LET start == rangeForm.start
        end == rangeForm.end
    IN  IF monthsBetween(start, end) < 0
        THEN ranges = <<>>
        ELSE /\ Len(ranges) = monthsBetween(start, end) + 1
             /\ ranges[1] = start
             /\ ranges[Len(ranges)] = end
             /\ \A i \in 1..(Len(ranges) - 1) : ranges[i + 1] = MonthAfter(ranges[i])

\* a generated range that runs over a year boundary
RangeOverYearBoundary ==
    /\ rangeForm # defaultRanges
    /\ \E i \in 1..(Len(ranges) - 1) :
            ranges[i][2] = 12 /\ ranges[i + 1] = <<ranges[i][1] + 1, 1>>

====
